---- MODULE Spec2Model ----
(***************************************************************************)
(* A model of umsgpack/mp_load.py, the MessagePack decoder of              *)
(* micropython-msgpack.                                                    *)
(*                                                                         *)
(* The decoder is a recursive-descent parser over a byte stream.  The      *)
(* stream is a record fp = [buf, pos]: the bytes of the uio.BytesIO and    *)
(* the number of bytes already consumed.  Every decoding routine is an     *)
(* operator that returns a record                                          *)
(*     [st, val, pos, calls, via]                                          *)
(* st    "ok" or the name of the exception that left the routine,          *)
(* val   the decoded value (NoVal when an exception was raised),           *)
(* pos   the stream position when the routine returned or raised,          *)
(* calls the extension callbacks invoked so far, in order,                 *)
(* via   for UnhashableKey, the statement that raised it.                  *)
(*                                                                         *)
(* Integers are kept as sign and magnitude, the magnitude a sequence of    *)
(* bits (most significant first, no leading zero), so that 32 and 64 bit   *)
(* fields keep their full width.  Floats are kept as the exact dyadic      *)
(* number their IEEE-754 bits denote.  Equality of map keys is Python's    *)
(* (1 == True == 1.0, NaN equal to nothing).                               *)
(***************************************************************************)
EXTENDS Integers, Sequences, FiniteSets, TLC

VARIABLES
    buf,                \* the bytes handed to loads / held by the stream
    options,            \* the options dict of the call
    ext_type_to_class,  \* the process-wide registry of extension classes
    start,              \* stream position before the last load
    cursor,             \* stream position now
    out,                \* what the last load returned or raised
    whole,              \* the result for the untruncated buffer, once truncated
    r_src,              \* _read_except: the bytes of the source
    r_pos,              \* _read_except: how many of them the source has delivered
    r_n,                \* _read_except: the number of bytes asked for
    r_data,             \* _read_except: the local data
    r_pc,               \* _read_except: the position in the routine
    r_reads,            \* _read_except: number of fp.read calls issued
    r_empty             \* _read_except: some fp.read returned no byte

vars == <<buf, options, ext_type_to_class, start, cursor, out, whole,
          r_src, r_pos, r_n, r_data, r_pc, r_reads, r_empty>>

decoderVars == <<buf, options, ext_type_to_class, start, cursor, out, whole>>
readVars == <<r_src, r_pos, r_n, r_data, r_pc, r_reads, r_empty>>

\* ------------------------------------------------------------------------
\* Bounds of the model.
\* ------------------------------------------------------------------------
MaxTokens == 4
MaxReadLen == 3
MaxPayload == 8
MaxTail == 9
MaxEntries == 2

\* ------------------------------------------------------------------------
\* Helpers.
\* ------------------------------------------------------------------------
\* A local variable: F applied to the value v, which is computed once.
Let(v, F(_)) == F(v)

Min(a, b) == IF a < b THEN a ELSE b

Max(a, b) == IF a < b THEN b ELSE a

Byte == 0 .. 255

RECURSIVE BitAnd(_, _)
BitAnd(a, b) ==
    IF a = 0 \/ b = 0 THEN 0
    ELSE (a % 2) * (b % 2) + 2 * BitAnd(a \div 2, b \div 2)

\* a & ~m for a byte a: the bits of a that m does not have.
BitAndNot(a, m) == a - BitAnd(a, m)

\* 1 << k
Shl1(k) == 2 ^ k

\* The bits of a byte string, most significant first.
Bits(data) ==
    [i \in 1 .. 8 * Len(data) |->
        (data[((i - 1) \div 8) + 1] \div (2 ^ (7 - ((i - 1) % 8)))) % 2]

RECURSIVE StripLeading(_)
StripLeading(bits) ==
    IF bits = <<>> THEN <<>>
    ELSE IF bits[1] = 0 THEN StripLeading(Tail(bits))
    ELSE bits

Front(s) == SubSeq(s, 1, Len(s) - 1)

Last(s) == s[Len(s)]

RECURSIVE StripTrailing(_)
StripTrailing(bits) ==
    IF bits = <<>> THEN <<>>
    ELSE IF Last(bits) = 0 THEN StripTrailing(Front(bits))
    ELSE bits

Invert(bits) == [i \in 1 .. Len(bits) |-> 1 - bits[i]]

\* bits + 1 modulo 2^Len(bits)
RECURSIVE Increment(_)
Increment(bits) ==
    IF bits = <<>> THEN <<>>
    ELSE IF Last(bits) = 0 THEN Front(bits) \o <<1>>
    ELSE Increment(Front(bits)) \o <<0>>

\* The natural number a bit string denotes; LargeNat when it has more bits
\* than the model's integers hold (more than any buffer is long).
LargeNat == 2 ^ 30

RECURSIVE NatOfBits(_)
NatOfBits(bits) ==
    IF bits = <<>> THEN 0
    ELSE 2 * NatOfBits(Front(bits)) + Last(bits)

NatOf(mag) == IF Len(mag) > 30 THEN LargeNat ELSE NatOfBits(mag)

\* ------------------------------------------------------------------------
\* Decoded values.
\* ------------------------------------------------------------------------
NoVal == [t |-> "none"]

PyNone == [t |-> "nil"]

PyBool(b) == [t |-> "bool", b |-> b]

PyInt(neg, mag) == [t |-> "int", neg |-> neg, mag |-> mag]

PyFloat(k, neg, m, e) == [t |-> "float", k |-> k, neg |-> neg, m |-> m, e |-> e]

PyStr(s) == [t |-> "str", s |-> s]

PyBytes(d) == [t |-> "bytes", d |-> d]

PyList(items) == [t |-> "list", items |-> items]

PyTuple(items) == [t |-> "tuple", items |-> items]

PyDict(ordered, entries) == [t |-> "dict", ordered |-> ordered, entries |-> entries]

Ext(type, data) == [t |-> "ext", type |-> type, data |-> data]

\* What an extension callback returns: an opaque object that remembers who
\* made it and from what.
Obj(by, type, data) == [t |-> "obj", by |-> by, type |-> type, data |-> data]

\* ------------------------------------------------------------------------
\* Results.
\* ------------------------------------------------------------------------
Ok(val, pos, calls) ==
    [st |-> "ok", val |-> val, pos |-> pos, calls |-> calls, via |-> ""]

Raise(exc, pos, calls) ==
    [st |-> exc, val |-> NoVal, pos |-> pos, calls |-> calls, via |-> ""]

RaiseVia(exc, via, pos, calls) ==
    [st |-> exc, val |-> NoVal, pos |-> pos, calls |-> calls, via |-> via]

NoResult == [st |-> "none", val |-> NoVal, pos |-> 0, calls |-> <<>>, via |-> ""]

_fail(pos) == Raise("LogicError", pos, <<>>)

\* ------------------------------------------------------------------------
\* The byte source: uio.BytesIO and _read_except.
\* ------------------------------------------------------------------------
Fp(b, pos) == [buf |-> b, pos |-> pos]

\* fp.read(n) of a BytesIO: the next n bytes, or as many as are left.
FpRead(fp, n) == SubSeq(fp.buf, fp.pos + 1, Min(fp.pos + n, Len(fp.buf)))

\* The loop of lines 31-36 left out: what the first read gave is returned.
ReadLoop_once(fp, n, data) == [st |-> "ok", data |-> data, pos |-> fp.pos]

RECURSIVE ReadLoop(_, _, _)
ReadLoop(fp, n, data) ==
    IF Len(data) < n
    THEN LET chunk == FpRead(fp, n - Len(data))
         IN  IF Len(chunk) = 0
             THEN [st |-> "InsufficientData", data |-> <<>>, pos |-> fp.pos]
             ELSE ReadLoop(Fp(fp.buf, fp.pos + Len(chunk)), n, data \o chunk)
    ELSE [st |-> "ok", data |-> data, pos |-> fp.pos]

_read_except(fp, n) ==
    IF n = 0 THEN [st |-> "ok", data |-> <<>>, pos |-> fp.pos]
    ELSE LET data == FpRead(fp, n)
         IN  IF Len(data) = 0
             THEN [st |-> "InsufficientData", data |-> <<>>, pos |-> fp.pos]
             ELSE ReadLoop(Fp(fp.buf, fp.pos + Len(data)), n, data)

\* ------------------------------------------------------------------------
\* struct.unpack for the formats the decoder uses.  A format is a sequence
\* of characters.
\* ------------------------------------------------------------------------
IsSpace(c) == c = " "

\* s.strip()
RECURSIVE StripLeft(_)
StripLeft(s) ==
    IF s = <<>> THEN <<>>
    ELSE IF IsSpace(s[1]) THEN StripLeft(Tail(s))
    ELSE s

RECURSIVE StripRight(_)
StripRight(s) ==
    IF s = <<>> THEN <<>>
    ELSE IF IsSpace(Last(s)) THEN StripRight(Front(s))
    ELSE s

Strip(s) == StripRight(StripLeft(s))

\* s[a : b] for a Python sequence, negative indices counted from the end.
PySlice(s, a, b) ==
    LET n  == Len(s)
        lo == IF a < 0 THEN Max(a + n, 0) ELSE Min(a, n)
        hi == IF b < 0 THEN Max(b + n, 0) ELSE Min(b, n)
    IN  SubSeq(s, lo + 1, hi)

FormatCode(fmt) == IF fmt # <<>> /\ fmt[1] = ">" THEN Tail(fmt) ELSE fmt

\* struct.calcsize
CalcSize(fmt) ==
    LET c == FormatCode(fmt)
    IN  IF Len(c) # 1 THEN -1
        ELSE CASE c[1] \in {"B", "b"} -> 1
               [] c[1] \in {"H", "h"} -> 2
               [] c[1] \in {"I", "i", "f"} -> 4
               [] c[1] \in {"Q", "q", "d"} -> 8
               [] OTHER -> -1

Unsigned(bits) == PyInt(FALSE, StripLeading(bits))

\* Two's complement: a set top bit means the value is bits - 2^Len(bits).
Signed(bits) ==
    IF bits[1] = 0 THEN PyInt(FALSE, StripLeading(bits))
    ELSE PyInt(TRUE, StripLeading(Increment(Invert(bits))))

AllZero(bits) == \A i \in 1 .. Len(bits) : bits[i] = 0

\* The number m * 2^e with m odd (as bits), or zero.
Dyadic(neg, mant, exp) ==
    LET m == StripTrailing(StripLeading(mant))
        z == Len(StripLeading(mant)) - Len(m)
    IN  IF m = <<>> THEN PyFloat("num", neg, <<>>, 0)
        ELSE PyFloat("num", neg, m, exp + z)

\* An IEEE-754 binary32 (ebits 8) or binary64 (ebits 11) field.
Ieee(bits, ebits) ==
    LET neg   == bits[1] = 1
        E     == NatOfBits(SubSeq(bits, 2, 1 + ebits))
        M     == SubSeq(bits, 2 + ebits, Len(bits))
        mbits == Len(bits) - 1 - ebits
        bias  == 2 ^ (ebits - 1) - 1
    IN  IF E = 2 ^ ebits - 1
        THEN IF AllZero(M) THEN PyFloat("inf", neg, <<>>, 0)
             ELSE PyFloat("nan", FALSE, <<>>, 0)
        ELSE IF E = 0 THEN Dyadic(neg, M, 1 - bias - mbits)
        ELSE Dyadic(neg, <<1>> \o M, E - bias - mbits)

\* struct.unpack(fmt, data)[0]; "struct.error" when the sizes disagree.
StructUnpack(fmt, data) ==
    LET c == FormatCode(fmt)
    IN  IF CalcSize(fmt) # Len(data) THEN [st |-> "struct.error", val |-> NoVal]
        ELSE [st |-> "ok",
              val |-> CASE c[1] \in {"B", "H", "I", "Q"} -> Unsigned(Bits(data))
                        [] c[1] \in {"b", "h", "i", "q"} -> Signed(Bits(data))
                        [] c[1] = "f" -> Ieee(Bits(data), 8)
                        [] c[1] = "d" -> Ieee(Bits(data), 11)]

_re0(s, fp, n) ==
    Let(_read_except(fp, n), LAMBDA r :
        IF r.st # "ok" THEN Raise(r.st, r.pos, <<>>)
        ELSE Let(StructUnpack(s, r.data), LAMBDA u :
                 IF u.st # "ok" THEN Raise(u.st, r.pos, <<>>)
                 ELSE Ok(u.val, r.pos, <<>>)))

\* ------------------------------------------------------------------------
\* Scalars.
\* ------------------------------------------------------------------------
\* The format string with its signed and unsigned halves exchanged.
IntegerFormats_swapped ==
    <<"b", " ", ">", "h", ">", "i", ">", "q",
      "B", " ", ">", "H", ">", "I", ">", "Q">>

\* "B >H>I>Qb >h>i>q"
IntegerFormats ==
    <<"B", " ", ">", "H", ">", "I", ">", "Q",
      "b", " ", ">", "h", ">", "i", ">", "q">>

_unpack_integer(ic, fp) ==
    IF BitAnd(ic, 224) = 224 THEN Ok(StructUnpack(<<"b">>, <<ic>>).val, fp.pos, <<>>)
    ELSE IF BitAnd(ic, 128) = 0 THEN Ok(StructUnpack(<<"B">>, <<ic>>).val, fp.pos, <<>>)
    ELSE LET ic2 == ic - 204
             off == ic2 * 2
             s   == PySlice(IntegerFormats, off, off + 2)
         IN  IF ic2 < 0 THEN _fail(fp.pos)
             ELSE _re0(Strip(s), fp, Shl1(BitAnd(ic2, 3)))

_unpack_float(ic, fp) ==
    IF ic = 202 THEN _re0(<<">", "f">>, fp, 4)
    ELSE IF ic = 203 THEN _re0(<<">", "d">>, fp, 8)
    ELSE _fail(fp.pos)

\* ------------------------------------------------------------------------
\* Length headers.  A header result is [st, n, pos].
\* ------------------------------------------------------------------------
Fixed(n, fp) == [st |-> "ok", n |-> n, pos |-> fp.pos]

ReadLength(s, fp, n) ==
    Let(_re0(s, fp, n), LAMBDA r :
        [st  |-> r.st,
         n   |-> IF r.st = "ok" THEN NatOf(r.val.mag) ELSE 0,
         pos |-> r.pos])

FailLength(fp) == [st |-> "LogicError", n |-> 0, pos |-> fp.pos]

\* The signed value of a one-byte integer, as a number of the model.
SmallInt(v) == IF v.neg THEN 0 - NatOf(v.mag) ELSE NatOf(v.mag)

\* ------------------------------------------------------------------------
\* Strings and binaries.
\* ------------------------------------------------------------------------
\* Bytes still owed after a UTF-8 lead byte; -1 for a byte that cannot lead.
Utf8Need(c) ==
    IF c < 128 THEN 0
    ELSE IF c < 192 THEN -1
    ELSE IF c < 224 THEN 1
    ELSE IF c < 240 THEN 2
    ELSE IF c < 248 THEN 3
    ELSE -1

RECURSIVE Utf8Check(_, _)
Utf8Check(data, need) ==
    IF data = <<>> THEN need = 0
    ELSE IF need > 0
         THEN 128 <= data[1] /\ data[1] < 192 /\ Utf8Check(Tail(data), need - 1)
         ELSE Utf8Need(data[1]) >= 0 /\ Utf8Check(Tail(data), Utf8Need(data[1]))

\* str(data, 'utf-8') succeeds
Utf8Valid(data) == Utf8Check(data, 0)

StringLength(ic, fp) ==
    IF BitAnd(ic, 224) = 160 THEN Fixed(BitAndNot(ic, 224), fp)
    ELSE IF ic = 217 THEN ReadLength(<<"B">>, fp, 1)
    ELSE IF ic = 218 THEN ReadLength(<<">", "H">>, fp, 2)
    ELSE IF ic = 219 THEN ReadLength(<<">", "I">>, fp, 4)
    ELSE FailLength(fp)

_unpack_string(ic, fp, opts) ==
    Let(StringLength(ic, fp), LAMBDA h :
        IF h.st # "ok" THEN Raise(h.st, h.pos, <<>>)
        ELSE Let(_read_except(Fp(fp.buf, h.pos), h.n), LAMBDA r :
                 IF r.st # "ok" THEN Raise(r.st, r.pos, <<>>)
                 ELSE IF Utf8Valid(r.data) THEN Ok(PyStr(r.data), r.pos, <<>>)
                 ELSE IF opts.allow_invalid_utf8 THEN Ok(PyBytes(r.data), r.pos, <<>>)
                 ELSE Raise("InvalidString", r.pos, <<>>)))

BinaryLength(ic, fp) ==
    IF ic = 196 THEN ReadLength(<<"B">>, fp, 1)
    ELSE IF ic = 197 THEN ReadLength(<<">", "H">>, fp, 2)
    ELSE IF ic = 198 THEN ReadLength(<<">", "I">>, fp, 4)
    ELSE FailLength(fp)

_unpack_binary(ic, fp) ==
    Let(BinaryLength(ic, fp), LAMBDA h :
        IF h.st # "ok" THEN Raise(h.st, h.pos, <<>>)
        ELSE Let(_read_except(Fp(fp.buf, h.pos), h.n), LAMBDA r :
                 IF r.st # "ok" THEN Raise(r.st, r.pos, <<>>)
                 ELSE Ok(PyBytes(r.data), r.pos, <<>>)))

\* ------------------------------------------------------------------------
\* Extensions.
\* ------------------------------------------------------------------------
FixextCodes == <<212, 213, 214, 215, 216>>

\* b'\xd4\xd5\xd6\xd7\xd8'.find(code)
Find(codes, ic) ==
    IF \E i \in 1 .. Len(codes) : codes[i] = ic
    THEN (CHOOSE i \in 1 .. Len(codes) : codes[i] = ic) - 1
    ELSE -1

ExtLength(ic, fp) ==
    LET n == Find(FixextCodes, ic)
        length == IF n < 0 THEN 0 ELSE Shl1(n)
    IN  IF length = 0
        THEN IF ic = 199 THEN ReadLength(<<"B">>, fp, 1)
             ELSE IF ic = 200 THEN ReadLength(<<">", "H">>, fp, 2)
             ELSE IF ic = 201 THEN ReadLength(<<">", "I">>, fp, 4)
             ELSE FailLength(fp)
        ELSE Fixed(length, fp)

Call(fn, type, pos) == [fn |-> fn, type |-> type, pos |-> pos]

\* The registry looked at before the handlers of the call.
ResolveExt_registry_first(ext, pos, opts) ==
    IF ext.type \in DOMAIN ext_type_to_class
    THEN IF ext_type_to_class[ext.type] = "unpackb"
         THEN Ok(Obj("unpackb", ext.type, ext.data), pos,
                 <<Call("ext_type_to_class", ext.type, pos),
                   Call("unpackb", ext.type, pos)>>)
         ELSE Raise("NotImplemented", pos,
                    <<Call("ext_type_to_class", ext.type, pos)>>)
    ELSE IF opts.ext_handlers # {} /\ ext.type \in opts.ext_handlers
    THEN Ok(Obj("ext_handlers", ext.type, ext.data), pos,
            <<Call("ext_handlers", ext.type, pos)>>)
    ELSE Ok(ext, pos, <<Call("ext_type_to_class", ext.type, pos)>>)

\* Lines 123-134: the handler of the call, then the registry, then the Ext.
ResolveExt(ext, pos, opts) ==
    IF opts.ext_handlers # {} /\ ext.type \in opts.ext_handlers
    THEN Ok(Obj("ext_handlers", ext.type, ext.data), pos,
            <<Call("ext_handlers", ext.type, pos)>>)
    ELSE IF ext.type \in DOMAIN ext_type_to_class
    THEN IF ext_type_to_class[ext.type] = "unpackb"
         THEN Ok(Obj("unpackb", ext.type, ext.data), pos,
                 <<Call("ext_type_to_class", ext.type, pos),
                   Call("unpackb", ext.type, pos)>>)
         ELSE Raise("NotImplemented", pos,
                    <<Call("ext_type_to_class", ext.type, pos)>>)
    ELSE Ok(ext, pos, <<Call("ext_type_to_class", ext.type, pos)>>)

_unpack_ext(ic, fp, opts) ==
    Let(ExtLength(ic, fp), LAMBDA h :
        IF h.st # "ok" THEN Raise(h.st, h.pos, <<>>)
        ELSE Let(_re0(<<"b">>, Fp(fp.buf, h.pos), 1), LAMBDA t :
                 IF t.st # "ok" THEN Raise(t.st, t.pos, <<>>)
                 ELSE Let(_read_except(Fp(fp.buf, t.pos), h.n), LAMBDA d :
                          IF d.st # "ok" THEN Raise(d.st, d.pos, <<>>)
                          ELSE ResolveExt(Ext(SmallInt(t.val), d.data), d.pos, opts))))

\* ------------------------------------------------------------------------
\* Map keys: hash(k), k == k2, k in d.
\* ------------------------------------------------------------------------
\* The conversion of lines 150-153 left out.
_deep_list_to_tuple_not(obj) == obj

RECURSIVE _deep_list_to_tuple(_)
_deep_list_to_tuple(obj) ==
    IF obj.t = "list"
    THEN PyTuple([i \in 1 .. Len(obj.items) |-> _deep_list_to_tuple(obj.items[i])])
    ELSE obj

\* The Ext class defines __hash__ and __eq__ over (type, data).
ExtHashable(v) == TRUE

ExtEq(a, b) == a.type = b.type /\ a.data = b.data

\* hash(k) that does not look into a tuple.
Hashable_shallow(k) == k.t \notin {"dict", "list"}

\* hash(k) does not raise
RECURSIVE Hashable(_)
Hashable(k) ==
    CASE k.t \in {"dict", "list"} -> FALSE
      [] k.t = "tuple" -> \A i \in 1 .. Len(k.items) : Hashable(k.items[i])
      [] k.t = "ext" -> ExtHashable(k)
      [] OTHER -> TRUE

IsNumber(v) == v.t \in {"bool", "int", "float"}

NumZero == [k |-> "num", neg |-> FALSE, m |-> <<>>, e |-> 0]

\* The number a bool, an int or a float is, in one form: m * 2^e with m odd.
NumKey(v) ==
    CASE v.t = "bool" ->
            IF v.b THEN [k |-> "num", neg |-> FALSE, m |-> <<1>>, e |-> 0]
            ELSE NumZero
      [] v.t = "int" ->
            IF v.mag = <<>> THEN NumZero
            ELSE [k |-> "num", neg |-> v.neg, m |-> StripTrailing(v.mag),
                  e |-> Len(v.mag) - Len(StripTrailing(v.mag))]
      [] v.t = "float" ->
            IF v.k = "num" /\ v.m = <<>> THEN NumZero
            ELSE [k |-> v.k, neg |-> v.neg, m |-> v.m, e |-> v.e]

\* Equality by type and representation: True is not 1.
PyEq_identical(a, b) == a = b

\* a == b for two separately decoded objects
RECURSIVE PyEq(_, _)
PyEq(a, b) ==
    IF IsNumber(a) /\ IsNumber(b)
    THEN NumKey(a).k # "nan" /\ NumKey(a) = NumKey(b)
    ELSE IF a.t # b.t THEN FALSE
    ELSE CASE a.t = "nil" -> TRUE
           [] a.t = "str" -> a.s = b.s
           [] a.t = "bytes" -> a.d = b.d
           [] a.t = "tuple" ->
                /\ Len(a.items) = Len(b.items)
                /\ \A i \in 1 .. Len(a.items) : PyEq(a.items[i], b.items[i])
           [] a.t = "ext" -> ExtEq(a, b)
           [] OTHER -> FALSE

\* k in d, d the entries inserted so far
Contains(d, k) == \E i \in 1 .. Len(d) : PyEq(d[i].k, k)

\* The checks of lines 176-183 left out, the insertion alone guarding.
KeyCheck_late(k, d) == "ok"

\* Lines 176-183: what the checks on a key raise, "ok" when they pass.
KeyCheck(k, d) ==
    IF ~Hashable(k) THEN "UnhashableKey"
    ELSE IF Contains(d, k) THEN "DuplicateKey"
    ELSE "ok"

\* ------------------------------------------------------------------------
\* The dispatcher and the composite decoders.
\* ------------------------------------------------------------------------
\* Dispatch with the bound of the fixmap range off by one (ic < 0x8f).
Dispatch_offbyone(ic) ==
    IF ic <= 127 \/ (204 <= ic /\ ic <= 211) \/ (224 <= ic /\ ic <= 255)
    THEN "_unpack_integer"
    ELSE IF ic <= 201
    THEN IF ic <= 195
         THEN IF ic < 143 THEN "_unpack_map"
              ELSE IF ic <= 159 THEN "_unpack_array"
              ELSE IF ic <= 191 THEN "_unpack_string"
              ELSE IF ic = 193 THEN "ReservedCode"
              ELSE "constant"
         ELSE IF ic <= 198 THEN "_unpack_binary"
         ELSE "_unpack_ext"
    ELSE IF ic <= 203 THEN "_unpack_float"
    ELSE IF ic <= 216 THEN "_unpack_ext"
    ELSE IF ic <= 219 THEN "_unpack_string"
    ELSE IF ic <= 221 THEN "_unpack_array"
    ELSE "_unpack_map"

\* The routine the comparison chain of load selects for a tag.
Dispatch(ic) ==
    IF ic <= 127 \/ (204 <= ic /\ ic <= 211) \/ (224 <= ic /\ ic <= 255)
    THEN "_unpack_integer"
    ELSE IF ic <= 201
    THEN IF ic <= 195
         THEN IF ic <= 143 THEN "_unpack_map"
              ELSE IF ic <= 159 THEN "_unpack_array"
              ELSE IF ic <= 191 THEN "_unpack_string"
              ELSE IF ic = 193 THEN "ReservedCode"
              ELSE "constant"
         ELSE IF ic <= 198 THEN "_unpack_binary"
         ELSE "_unpack_ext"
    ELSE IF ic <= 203 THEN "_unpack_float"
    ELSE IF ic <= 216 THEN "_unpack_ext"
    ELSE IF ic <= 219 THEN "_unpack_string"
    ELSE IF ic <= 221 THEN "_unpack_array"
    ELSE "_unpack_map"

\* (None, 0, False, True)
Constants == <<PyNone, PyInt(FALSE, <<>>), PyBool(FALSE), PyBool(TRUE)>>

\* The length of an array 16 read from one byte.
ArrayLength_short(ic, fp) ==
    IF BitAnd(ic, 240) = 144 THEN Fixed(BitAndNot(ic, 240), fp)
    ELSE IF ic = 220 THEN ReadLength(<<"B">>, fp, 1)
    ELSE IF ic = 221 THEN ReadLength(<<">", "I">>, fp, 4)
    ELSE FailLength(fp)

ArrayLength(ic, fp) ==
    IF BitAnd(ic, 240) = 144 THEN Fixed(BitAndNot(ic, 240), fp)
    ELSE IF ic = 220 THEN ReadLength(<<">", "H">>, fp, 2)
    ELSE IF ic = 221 THEN ReadLength(<<">", "I">>, fp, 4)
    ELSE FailLength(fp)

MapLength(ic, fp) ==
    IF BitAnd(ic, 240) = 128 THEN Fixed(BitAndNot(ic, 240), fp)
    ELSE IF ic = 222 THEN ReadLength(<<">", "H">>, fp, 2)
    ELSE IF ic = 223 THEN ReadLength(<<">", "I">>, fp, 4)
    ELSE FailLength(fp)

Propagate(r, calls) == [r EXCEPT !.calls = calls \o r.calls]

RECURSIVE load(_, _), ArrayItems(_, _, _, _, _), MapEntries(_, _, _, _, _)
RECURSIVE _unpack_array(_, _, _), _unpack_map(_, _, _)

\* Lines 146-147: load called `length` times, the results collected.
ArrayItems(fp, opts, length, items, calls) ==
    IF length = 0
    THEN Ok(IF opts.use_tuple THEN PyTuple(items) ELSE PyList(items), fp.pos, calls)
    ELSE Let(load(fp, opts), LAMBDA r :
             IF r.st # "ok" THEN Propagate(r, calls)
             ELSE ArrayItems(Fp(fp.buf, r.pos), opts, length - 1,
                             Append(items, r.val), calls \o r.calls))

_unpack_array(ic, fp, opts) ==
    Let(ArrayLength(ic, fp), LAMBDA h :
        IF h.st # "ok" THEN Raise(h.st, h.pos, <<>>)
        ELSE ArrayItems(Fp(fp.buf, h.pos), opts, h.n, <<>>, <<>>))

\* Lines 169-193: the loop over the entries of a map.
MapEntries(fp, opts, length, d, calls) ==
    IF length = 0
    THEN Ok(PyDict(opts.use_ordered_dict, d), fp.pos, calls)
    ELSE Let(load(fp, opts), LAMBDA kr :
         IF kr.st # "ok" THEN Propagate(kr, calls)
         ELSE Let(IF kr.val.t = "list" THEN _deep_list_to_tuple(kr.val) ELSE kr.val,
                  LAMBDA k :
              Let(KeyCheck(k, d), LAMBDA chk :
              IF chk # "ok"
              THEN RaiseVia(chk, "check", kr.pos, calls \o kr.calls)
              ELSE Let(load(Fp(fp.buf, kr.pos), opts), LAMBDA vr :
                   IF vr.st # "ok" THEN Propagate(vr, calls \o kr.calls)
                   ELSE IF ~Hashable(k)
                   THEN RaiseVia("UnhashableKey", "insert", vr.pos,
                                 calls \o kr.calls \o vr.calls)
                   ELSE MapEntries(Fp(fp.buf, vr.pos), opts, length - 1,
                                   Append(d, [k |-> k, v |-> vr.val]),
                                   calls \o kr.calls \o vr.calls)))))

_unpack_map(ic, fp, opts) ==
    Let(MapLength(ic, fp), LAMBDA h :
        IF h.st # "ok" THEN Raise(h.st, h.pos, <<>>)
        ELSE MapEntries(Fp(fp.buf, h.pos), opts, h.n, <<>>, <<>>))

\* Lines 199-223, once the tag ic was read and the stream stands at fp1.
Route(route, ic, fp1, opts) ==
    CASE route = "_unpack_integer" -> _unpack_integer(ic, fp1)
      [] route = "_unpack_map" -> _unpack_map(ic, fp1, opts)
      [] route = "_unpack_array" -> _unpack_array(ic, fp1, opts)
      [] route = "_unpack_string" -> _unpack_string(ic, fp1, opts)
      [] route = "ReservedCode" -> Raise("ReservedCode", fp1.pos, <<>>)
      [] route = "constant" -> Ok(Constants[ic - 192 + 1], fp1.pos, <<>>)
      [] route = "_unpack_binary" -> _unpack_binary(ic, fp1)
      [] route = "_unpack_ext" -> _unpack_ext(ic, fp1, opts)
      [] route = "_unpack_float" -> _unpack_float(ic, fp1)

load(fp, opts) ==
    Let(_read_except(fp, 1), LAMBDA c :
        IF c.st # "ok" THEN Raise(c.st, c.pos, <<>>)
        ELSE Route(Dispatch(c.data[1]), c.data[1], Fp(fp.buf, c.pos), opts))

\* s is [type, data]: what was passed, and its bytes.
loads(s, opts) ==
    IF s.type \notin {"bytes", "bytearray"} THEN Raise("TypeError", 0, <<>>)
    ELSE load(Fp(s.data, 0), opts)

\* ------------------------------------------------------------------------
\* _read_except step by step, over a source that may answer a read with
\* fewer bytes than were asked for.
\*   r_pc = "call"    line 24 is next
\*   r_pc = "loop"    the test of the while loop (line 31) is next
\*   r_pc = "return"  the routine returned r_data
\*   r_pc = "raise"   the routine raised InsufficientDataException
\* ------------------------------------------------------------------------
\* The sizes of the answer a read of `want` bytes may get.
Answers(want) == 0 .. Min(want, Len(r_src) - r_pos)

Deliver(k) == SubSeq(r_src, r_pos + 1, r_pos + k)

\* The loop condition of line 31 never true.
NeedMore_never(data, n) == FALSE

\* Line 31: the loop goes on.
NeedMore(data, n) == Len(data) < n

\* Lines 24-25.
ReadNothing ==
    /\ r_pc = "call"
    /\ r_n = 0
    /\ r_data' = <<>>
    /\ r_pc' = "return"
    /\ UNCHANGED <<r_src, r_pos, r_n, r_reads, r_empty>>
    /\ UNCHANGED decoderVars

\* Lines 27-29.
ReadFirst ==
    /\ r_pc = "call"
    /\ r_n # 0
    /\ \E k \in Answers(r_n) :
          /\ r_data' = Deliver(k)
          /\ r_pos' = r_pos + k
          /\ r_reads' = r_reads + 1
          /\ r_empty' = (k = 0)
          /\ r_pc' = IF k = 0 THEN "raise" ELSE "loop"
    /\ UNCHANGED <<r_src, r_n>>
    /\ UNCHANGED decoderVars

\* Lines 31-36.
ReadMore ==
    /\ r_pc = "loop"
    /\ NeedMore(r_data, r_n)
    /\ \E k \in Answers(r_n - Len(r_data)) :
          /\ r_data' = IF k = 0 THEN r_data ELSE r_data \o Deliver(k)
          /\ r_pos' = r_pos + k
          /\ r_reads' = r_reads + 1
          /\ r_empty' = (k = 0)
          /\ r_pc' = IF k = 0 THEN "raise" ELSE "loop"
    /\ UNCHANGED <<r_src, r_n>>
    /\ UNCHANGED decoderVars

\* Line 38.
ReadReturn ==
    /\ r_pc = "loop"
    /\ ~NeedMore(r_data, r_n)
    /\ r_pc' = "return"
    /\ UNCHANGED <<r_src, r_pos, r_n, r_data, r_reads, r_empty>>
    /\ UNCHANGED decoderVars

\* ------------------------------------------------------------------------
\* The decoder's operations.
\* ------------------------------------------------------------------------
\* loads(buf, options)
Loads ==
    /\ out = NoResult
    /\ out' = loads([type |-> "bytes", data |-> buf], options)
    /\ start' = 0
    /\ cursor' = out'.pos
    /\ UNCHANGED <<buf, options, ext_type_to_class, whole>>
    /\ UNCHANGED readVars

\* load(fp, options) on the stream again, after a value was decoded from it.
Load ==
    /\ out.st = "ok"
    /\ cursor < Len(buf)
    /\ out' = load(Fp(buf, cursor), options)
    /\ start' = cursor
    /\ cursor' = out'.pos
    /\ UNCHANGED <<buf, options, ext_type_to_class, whole>>
    /\ UNCHANGED readVars

\* The caller tries again with a proper prefix of the value just decoded.
Truncate ==
    /\ whole = NoResult
    /\ out.st = "ok"
    /\ start = 0
    /\ \E k \in 0 .. out.pos - 1 :
          buf' = SubSeq(buf, 1, k)
    /\ whole' = out
    /\ out' = NoResult
    /\ cursor' = 0
    /\ UNCHANGED <<start, options, ext_type_to_class>>
    /\ UNCHANGED readVars

\* ------------------------------------------------------------------------
\* Inputs.
\* ------------------------------------------------------------------------
RECURSIVE Flatten(_)
Flatten(chunks) ==
    IF chunks = <<>> THEN <<>> ELSE chunks[1] \o Flatten(Tail(chunks))

\* Every concatenation of at most n of the given chunks.
Buffers(chunks, n) ==
    {Flatten(cs) : cs \in UNION {[1 .. m -> chunks] : m \in 0 .. n}}

Options(use_tuple, allow_invalid_utf8, ext_handlers) ==
    [use_tuple |-> use_tuple, use_ordered_dict |-> FALSE,
     allow_invalid_utf8 |-> allow_invalid_utf8, ext_handlers |-> ext_handlers]

NoRegistry == [x \in {} |-> "unpackb"]

ReadIdle ==
    /\ r_src = <<>>
    /\ r_pos = 0
    /\ r_n = 0
    /\ r_data = <<>>
    /\ r_pc = "idle"
    /\ r_reads = 0
    /\ r_empty = FALSE

DecoderIdle ==
    /\ buf = <<>>
    /\ options = Options(FALSE, FALSE, {})
    /\ ext_type_to_class = NoRegistry
    /\ start = 0
    /\ cursor = 0
    /\ out = NoResult
    /\ whole = NoResult

\* Chunks of the main categories of the format, and the reserved tag.
Tokens ==
    { <<1>>, <<193>>, <<145>>, <<129>>, <<161, 97>>, <<196, 1, 7>>,
      <<212, 5, 7>>, <<204, 200>>, <<220, 0, 2>> }

DecoderStart ==
    /\ start = 0
    /\ cursor = 0
    /\ out = NoResult
    /\ whole = NoResult
    /\ ReadIdle

Init ==
    /\ buf \in Buffers(Tokens, MaxTokens)
    /\ options \in {Options(FALSE, FALSE, {}), Options(TRUE, TRUE, {5})}
    /\ ext_type_to_class = NoRegistry
    /\ DecoderStart

Next == Loads \/ Load \/ Truncate

\* Values decoded from a buffer, and again from the prefixes of a value.
Spec == Init /\ [][Next]_vars

NextStream == Loads \/ Load

\* Values decoded one after the other from a stream.
SpecStream == Init /\ [][NextStream]_vars

\* Every tag byte, followed by zeros or by ones.
InitTag ==
    /\ buf \in {<<t>> \o [i \in 1 .. n |-> b] :
                   t \in Byte, n \in {0, 1, 2, 5, MaxTail, 4 * MaxTail}, b \in {0, 1}}
    /\ options \in {Options(FALSE, FALSE, {})}
    /\ ext_type_to_class = NoRegistry
    /\ DecoderStart

SpecTag == InitTag /\ [][NextStream]_vars

\* Every integer tag, followed by a field of up to MaxPayload bytes.
IntegerTags == (0 .. 127) \cup (204 .. 211) \cup (224 .. 255)

PayloadBytes == {0, 128, 255}

Fields == UNION {[1 .. n -> PayloadBytes] : n \in 0 .. MaxPayload}

InitInt ==
    /\ buf \in {<<t>> \o f : t \in 204 .. 211, f \in Fields}
               \cup {<<t>> \o f : t \in IntegerTags, f \in {<<>>, <<0>>, <<255, 1>>}}
    /\ options = Options(FALSE, FALSE, {})
    /\ ext_type_to_class = NoRegistry
    /\ DecoderStart

SpecInt == InitInt /\ [][NextStream]_vars

\* A map whose keys are equal or nearly so: a header that announces up to
\* MaxEntries entries, then up to MaxEntries chunks, each a key with or
\* without a value.
DupKeys ==
    { <<1>>, <<204, 1>>, <<195>>, <<194>>, <<0>>, <<161, 97>>, <<217, 1, 97>>,
      <<196, 1, 97>>, <<144>>, <<145, 144>>, <<128>>, <<145, 128>>,
      <<202, 127, 192, 0, 0>>, <<202, 63, 128, 0, 0>> }

DupValues == {<<>>, <<192>>}

DupChunks == {k \o v : k \in DupKeys, v \in DupValues}

InitDup ==
    /\ buf \in {<<128 + n>> \o b :
                   n \in 1 .. MaxEntries, b \in Buffers(DupChunks, MaxEntries)}
    /\ options \in {Options(FALSE, FALSE, {}), Options(TRUE, FALSE, {})}
    /\ ext_type_to_class = NoRegistry
    /\ DecoderStart

SpecDup == InitDup /\ [][NextStream]_vars

\* A map whose keys are arrays and maps, followed by anything.
KeyTokens ==
    { <<1>>, <<145>>, <<144>>, <<128>>, <<129>>, <<193>>, <<204>>, <<161, 97>> }

InitKey ==
    /\ buf \in {h \o b : h \in {<<129>>, <<130>>}, b \in Buffers(KeyTokens, MaxTokens)}
    /\ options \in {Options(FALSE, FALSE, {}), Options(TRUE, FALSE, {})}
    /\ ext_type_to_class = NoRegistry
    /\ DecoderStart

SpecKey == InitKey /\ [][NextStream]_vars

\* Extensions, under every handler table and registry over two types.
ExtTokens ==
    { <<212, 5, 7>>, <<212, 6, 7>>, <<212, 255, 7>>, <<199, 2, 5, 7, 8>>,
      <<213, 6, 7, 8>>, <<199, 0, 5>>, <<146>>, <<1>> }

ExtTypes == {5, 6}

Registries ==
    UNION {[S -> {"unpackb", "no unpackb"}] : S \in SUBSET ExtTypes}

InitExt ==
    /\ buf \in Buffers(ExtTokens, MaxTokens - 1)
    /\ options \in {Options(FALSE, FALSE, h) : h \in SUBSET ExtTypes}
    /\ ext_type_to_class \in Registries
    /\ DecoderStart

SpecExt == InitExt /\ [][Next]_vars

\* _read_except alone.
ReadBytes == {7, 9}

InitRead ==
    /\ DecoderIdle
    /\ r_src \in UNION {[1 .. m -> ReadBytes] : m \in 0 .. MaxReadLen + 1}
    /\ r_pos = 0
    /\ r_n \in 0 .. MaxReadLen
    /\ r_data = <<>>
    /\ r_pc = "call"
    /\ r_reads = 0
    /\ r_empty = FALSE

NextRead == ReadNothing \/ ReadFirst \/ ReadMore \/ ReadReturn

SpecRead == InitRead /\ [][NextRead]_vars /\ WF_vars(NextRead)

\* ------------------------------------------------------------------------
\* The wire format, as its table gives it: the category of a tag byte and
\* the end of the encoded value that starts at offset p of b (-1 when the
\* bytes from p on are no complete value).
\* ------------------------------------------------------------------------
TagCategory(t) ==
    CASE t <= 127 -> "fixint"
      [] t \in 128 .. 143 -> "fixmap"
      [] t \in 144 .. 159 -> "fixarray"
      [] t \in 160 .. 191 -> "fixstr"
      [] t = 192 -> "nil"
      [] t = 193 -> "reserved"
      [] t = 194 -> "false"
      [] t = 195 -> "true"
      [] t \in 196 .. 198 -> "bin"
      [] t \in 199 .. 201 -> "ext"
      [] t \in 202 .. 203 -> "float"
      [] t \in 204 .. 211 -> "int"
      [] t \in 212 .. 216 -> "fixext"
      [] t \in 217 .. 219 -> "str"
      [] t \in 220 .. 221 -> "array"
      [] t \in 222 .. 223 -> "map"
      [] t >= 224 -> "fixint"

CategoryRoutine(c) ==
    CASE c \in {"fixint", "int"} -> "_unpack_integer"
      [] c \in {"fixmap", "map"} -> "_unpack_map"
      [] c \in {"fixarray", "array"} -> "_unpack_array"
      [] c \in {"fixstr", "str"} -> "_unpack_string"
      [] c \in {"nil", "false", "true"} -> "constant"
      [] c = "reserved" -> "ReservedCode"
      [] c = "bin" -> "_unpack_binary"
      [] c \in {"ext", "fixext"} -> "_unpack_ext"
      [] c = "float" -> "_unpack_float"

CategoryTypes(c) ==
    CASE c \in {"fixint", "int"} -> {"int"}
      [] c \in {"fixmap", "map"} -> {"dict"}
      [] c \in {"fixarray", "array"} -> {"list", "tuple"}
      [] c \in {"fixstr", "str"} -> {"str", "bytes"}
      [] c = "nil" -> {"nil"}
      [] c \in {"false", "true"} -> {"bool"}
      [] c = "reserved" -> {}
      [] c = "bin" -> {"bytes"}
      [] c \in {"ext", "fixext"} -> {"ext", "obj"}
      [] c = "float" -> {"float"}

\* The big-endian number in the w bytes after offset p; -1 when they are not
\* all there, LargeNat when it is 2^24 or more.
BigEndian(b, p, w) ==
    IF p + w > Len(b) THEN -1
    ELSE IF w = 4 /\ b[p + 1] # 0 THEN LargeNat
    ELSE IF w = 4 THEN b[p + 2] * 65536 + b[p + 3] * 256 + b[p + 4]
    ELSE IF w = 2 THEN b[p + 1] * 256 + b[p + 2]
    ELSE b[p + 1]

\* The end of a payload of n bytes that begins at offset p.
PayloadEnd(b, p, n) == IF n < 0 \/ p + n > Len(b) THEN -1 ELSE p + n

RECURSIVE End(_, _), EndOfValues(_, _, _)
\* The end of n values in a row from offset p on.
EndOfValues(b, p, n) ==
    IF p < 0 THEN -1
    ELSE IF n = 0 THEN p
    ELSE EndOfValues(b, End(b, p), n - 1)

End(b, p) ==
    IF p < 0 \/ p >= Len(b) THEN -1
    ELSE LET t == b[p + 1]
             c == TagCategory(t)
             w == CASE t \in {196, 199, 217} -> 1
                    [] t \in {197, 200, 218, 220, 222} -> 2
                    [] t \in {198, 201, 219, 221, 223} -> 4
                    [] OTHER -> 0
             n == BigEndian(b, p + 1, w)
         IN  CASE c \in {"fixint", "nil", "false", "true"} -> p + 1
               [] c = "reserved" -> -1
               [] c = "fixmap" -> EndOfValues(b, p + 1, 2 * (t - 128))
               [] c = "fixarray" -> EndOfValues(b, p + 1, t - 144)
               [] c = "fixstr" -> PayloadEnd(b, p + 1, t - 160)
               [] c = "float" -> PayloadEnd(b, p + 1, IF t = 202 THEN 4 ELSE 8)
               [] c = "int" -> PayloadEnd(b, p + 1, 2 ^ ((t - 204) % 4))
               [] c = "fixext" -> PayloadEnd(b, p + 1, 1 + 2 ^ (t - 212))
               [] c \in {"bin", "str"} -> PayloadEnd(b, p + 1 + w, n)
               [] c = "ext" -> PayloadEnd(b, p + 1 + w, IF n < 0 THEN -1 ELSE n + 1)
               [] c = "array" ->
                    IF n < 0 THEN -1 ELSE EndOfValues(b, p + 1 + w, n)
               [] c = "map" ->
                    IF n < 0 THEN -1
                    ELSE EndOfValues(b, p + 1 + w, IF n >= LargeNat THEN n ELSE 2 * n)

\* The tag of the value the last load began with.
Tagged == out # NoResult /\ out.st # "TypeError" /\ start < Len(buf)

Tag == buf[start + 1]

\* ------------------------------------------------------------------------
\* C1.  load is a total function of the tag byte: each of the 256 tags is
\* routed to the routine of its category in the table of the wire format,
\* what a successful decode returns is a value of that category, tag 0xc1
\* fails with ReservedCode, and neither the dispatcher nor the routine a tag
\* was routed to reaches _fail ('Logic error').
\* ------------------------------------------------------------------------
C1_DispatchTotal ==
    Tagged =>
        /\ Dispatch(Tag) = CategoryRoutine(TagCategory(Tag))
        /\ out.st # "LogicError"
        /\ (Tag = 193 => out.st = "ReservedCode")
        /\ (out.st = "ok" => out.val.t \in CategoryTypes(TagCategory(Tag)))
        /\ (out.st = "ok" /\ Tag = 192 => out.val = PyNone)
        /\ (out.st = "ok" /\ Tag = 194 => out.val = PyBool(FALSE))
        /\ (out.st = "ok" /\ Tag = 195 => out.val = PyBool(TRUE))

\* A map 32 (tag 0xdf, the last arm of the chain) was decoded.
C1_Witness == Tagged /\ Tag = 223 /\ out.st = "ok" /\ out.val.t = "dict"

\* ------------------------------------------------------------------------
\* Reference arithmetic on big-endian byte strings, for the integer claim.
\* ------------------------------------------------------------------------

\* The w base-256 digits, most significant first, of a magnitude given in
\* binary.
MagBytes(mag, w) ==
    LET padded == [i \in 1 .. 8 * w - Len(mag) |-> 0] \o mag
    IN  [i \in 1 .. w |->
            LET o == 8 * (i - 1)
            IN  padded[o + 1] * 128 + padded[o + 2] * 64 + padded[o + 3] * 32
                + padded[o + 4] * 16 + padded[o + 5] * 8 + padded[o + 6] * 4
                + padded[o + 7] * 2 + padded[o + 8]]

\* a + b + carry modulo 256^Len(a), digit by digit from the least
\* significant one.
RECURSIVE AddBytes(_, _, _)
AddBytes(a, b, carry) ==
    IF a = <<>> THEN <<>>
    ELSE LET sum == Last(a) + Last(b) + carry
         IN  AddBytes(Front(a), Front(b), sum \div 256) \o <<sum % 256>>

ZeroBytes(w) == [i \in 1 .. w |-> 0]

\* The width of the field that follows an integer tag.
FieldWidth(t) ==
    CASE t \in {204, 208} -> 1
      [] t \in {205, 209} -> 2
      [] t \in {206, 210} -> 4
      [] t \in {207, 211} -> 8
      [] OTHER -> 0

Field == SubSeq(buf, start + 2, start + 1 + FieldWidth(Tag))

\* ------------------------------------------------------------------------
\* C8.  Integer decoding is determined by the tag: 0x00-0x7f decode to the
\* byte itself and 0xe0-0xff to the byte minus 256, with no further byte
\* read; 0xcc..0xcf read exactly 1, 2, 4, 8 bytes and return their unsigned
\* big-endian value; 0xd0..0xd3 read exactly 1, 2, 4, 8 bytes and return
\* their two's-complement value (a field with the top bit set denotes the
\* negative number whose magnitude added to the field gives 256^width).
\* ------------------------------------------------------------------------
C8_IntegerByTag ==
    (Tagged /\ Tag \in IntegerTags) =>
        LET w == FieldWidth(Tag)
        IN  /\ w = 0 =>
                /\ out.st = "ok"
                /\ cursor = start + 1
                /\ out.val.t = "int"
                /\ Tag <= 127 => ~out.val.neg /\ NatOf(out.val.mag) = Tag
                /\ Tag >= 224 => out.val.neg /\ NatOf(out.val.mag) = 256 - Tag
            /\ (w > 0 /\ start + 1 + w > Len(buf)) => out.st = "InsufficientData"
            /\ (w > 0 /\ start + 1 + w <= Len(buf)) =>
                /\ out.st = "ok"
                /\ cursor = start + 1 + w
                /\ out.val.t = "int"
                /\ Len(out.val.mag) <= 8 * w
                /\ (out.val.mag # <<>> => out.val.mag[1] = 1)
                /\ IF Tag >= 208 /\ Field[1] >= 128
                   THEN /\ out.val.neg
                        /\ out.val.mag # <<>>
                        /\ AddBytes(MagBytes(out.val.mag, w), Field, 0) = ZeroBytes(w)
                   ELSE /\ ~out.val.neg
                        /\ MagBytes(out.val.mag, w) = Field

\* An int 64 with the top bit set was decoded from the eight bytes after the
\* tag.
C8_Witness ==
    /\ Tagged /\ Tag = 211 /\ start = 0
    /\ out.st = "ok" /\ out.val.neg /\ cursor = 9
    /\ Field = <<255, 128, 0, 0, 0, 0, 0, 128>>

\* ------------------------------------------------------------------------
\* C7.  Over a source that answers each read with between 0 bytes and the
\* number requested, _read_except(fp, n) terminates; it returns exactly the
\* next n bytes of the source in order, or raises InsufficientData, and it
\* raises exactly when a read returned no bytes before n were accumulated;
\* for n = 0 it returns the empty result without any read.
\* ------------------------------------------------------------------------
ReadDone == r_pc \in {"return", "raise"}

C7_ReadState ==
    /\ r_pc = "return" =>
          /\ Len(r_data) = r_n
          /\ r_pos = r_n
          /\ r_n <= Len(r_src)
          /\ r_data = SubSeq(r_src, 1, r_n)
          /\ ~r_empty
          /\ (r_n = 0 => r_reads = 0)
    /\ r_pc = "raise" <=> r_empty
    /\ r_empty => Len(r_data) < r_n /\ r_reads >= 1
    /\ r_reads <= r_n + 1
    /\ r_data = SubSeq(r_src, 1, r_pos)

C7_ReadExact == []C7_ReadState /\ <>ReadDone

\* The three bytes asked for came in three reads of one byte each.
C7_Witness == r_pc = "return" /\ r_n = 3 /\ r_reads = 3 /\ Len(r_src) > 3

\* ------------------------------------------------------------------------
\* C2.  loads on a proper prefix (the empty one included) of the bytes of a
\* value that decodes fails with InsufficientData: it returns no value and
\* raises no other error.
\* ------------------------------------------------------------------------
C2_PrefixInsufficient ==
    (whole # NoResult /\ out # NoResult) =>
        /\ Len(buf) < whole.pos
        /\ out.st = "InsufficientData"

\* The prefix of a map with an array in it, cut inside the array, was
\* decoded.
C2_Witness ==
    /\ whole # NoResult /\ whole.val.t = "dict" /\ whole.pos = 4
    /\ out # NoResult /\ out.st = "InsufficientData"
    /\ buf = <<129, 1, 145>>

\* ------------------------------------------------------------------------
\* C3.  A successful load leaves the cursor at the end of the encoded
\* extent of the value it returns (tag, length field and payload, or the
\* extents of the announced number of elements or pairs); it reads no byte
\* beyond that extent, so the same call on the buffer cut at the extent
\* gives the same result and trailing bytes are left unread; the cursor
\* never moves backwards and the buffer is never changed.
\* ------------------------------------------------------------------------
C3_Extent ==
    (out # NoResult /\ out.st = "ok") =>
        /\ cursor = End(buf, start)
        /\ cursor > start
        /\ cursor <= Len(buf)
        /\ load(Fp(SubSeq(buf, 1, cursor), start), options) = out

C3_Step == buf' = buf /\ cursor' >= cursor

C3_ExactExtent == []C3_Extent /\ [][C3_Step]_vars

\* An array 16 of two elements was decoded and the bytes after it were left
\* unread.
C3_Witness ==
    /\ Len(buf) > 5 /\ SubSeq(buf, 1, 3) = <<220, 0, 2>>
    /\ out # NoResult /\ out.st = "ok" /\ out.val.t = "list"
    /\ start = 0 /\ cursor = 5

\* ------------------------------------------------------------------------
\* The parts of an encoded extension, read off the buffer by the table of
\* the wire format.
\* ------------------------------------------------------------------------
ExtTags == (199 .. 201) \cup (212 .. 216)

\* The bytes of the length field.
ExtLengthWidth(t) ==
    CASE t = 199 -> 1 [] t = 200 -> 2 [] t = 201 -> 4 [] OTHER -> 0

\* The offset of the type byte, -1 when the length field is cut short.
ExtTypeAt ==
    IF start + 1 + ExtLengthWidth(Tag) > Len(buf) THEN -1
    ELSE start + 1 + ExtLengthWidth(Tag)

ExtPayloadLength ==
    IF Tag >= 212 THEN 2 ^ (Tag - 212)
    ELSE BigEndian(buf, start + 1, ExtLengthWidth(Tag))

ExtComplete ==
    /\ ExtTypeAt >= 0
    /\ ExtTypeAt + 1 + ExtPayloadLength <= Len(buf)

ExtEnd == ExtTypeAt + 1 + ExtPayloadLength

ExtType ==
    IF buf[ExtTypeAt + 1] >= 128 THEN buf[ExtTypeAt + 1] - 256
    ELSE buf[ExtTypeAt + 1]

ExtData == SubSeq(buf, ExtTypeAt + 2, ExtEnd)

Called(fn) == \E i \in 1 .. Len(out.calls) : out.calls[i].fn = fn

\* ------------------------------------------------------------------------
\* C6.  Extension resolution has a fixed priority: a handler of the call
\* for the type gives the result and the registry is not consulted, even if
\* it holds the type too; otherwise an entry of the registry gives the
\* result of its decoder, or NotImplemented is raised when the entry has no
\* decoder; otherwise the Ext (signed type, payload) is returned as it is.
\* Nothing is called before the type byte and the whole payload were read.
\* ------------------------------------------------------------------------
C6_ExtPriority ==
    (Tagged /\ Tag \in ExtTags) =>
        IF ~ExtComplete
        THEN out.st = "InsufficientData" /\ out.calls = <<>>
        ELSE /\ cursor = ExtEnd
             /\ \A i \in 1 .. Len(out.calls) :
                   out.calls[i].pos = ExtEnd /\ out.calls[i].type = ExtType
             /\ IF ExtType \in options.ext_handlers
                THEN /\ out.st = "ok"
                     /\ out.val = Obj("ext_handlers", ExtType, ExtData)
                     /\ Called("ext_handlers")
                     /\ ~Called("ext_type_to_class") /\ ~Called("unpackb")
                ELSE /\ ~Called("ext_handlers")
                     /\ IF ExtType \in DOMAIN ext_type_to_class
                        THEN IF ext_type_to_class[ExtType] = "unpackb"
                             THEN /\ out.st = "ok"
                                  /\ out.val = Obj("unpackb", ExtType, ExtData)
                             ELSE /\ out.st = "NotImplemented"
                                  /\ ~Called("unpackb")
                        ELSE /\ out.st = "ok"
                             /\ out.val = Ext(ExtType, ExtData)
                             /\ ~Called("unpackb")

\* Both tables hold type 5 and the handler of the call answered for an
\* ext 8 with a payload of two bytes.
C6_Witness ==
    /\ Tagged /\ Tag = 199 /\ ExtComplete /\ ExtType = 5
    /\ 5 \in options.ext_handlers /\ 5 \in DOMAIN ext_type_to_class
    /\ out.st = "ok" /\ out.val = Obj("ext_handlers", 5, <<7, 8>>)

\* ------------------------------------------------------------------------
\* The entries of an encoded map, read off the buffer by the table of the
\* wire format: where each key starts (ks) and ends (ke) and where its value
\* ends (ve, -1 when the value is not all there).  The list stops at the
\* first key that is not all there.
\* ------------------------------------------------------------------------
RECURSIVE Entries(_, _, _)
Entries(b, p, n) ==
    IF n = 0 \/ End(b, p) < 0 THEN <<>>
    ELSE LET ke == End(b, p)
             ve == End(b, ke)
         IN  <<[ks |-> p, ke |-> ke, ve |-> ve]>>
             \o (IF ve < 0 THEN <<>> ELSE Entries(b, ve, n - 1))

\* The last load began with the tag of a fixmap that announces entries.
MapHere == Tagged /\ Tag \in 129 .. 143

MapEntriesHere == Entries(buf, start + 1, Tag - 128)

\* What the key of entry j decodes to, taken by itself.
KeyResult(j) == load(Fp(buf, MapEntriesHere[j].ks), options)

\* The bytes of the key of entry j.
KeyBytes(j) == SubSeq(buf, MapEntriesHere[j].ks + 1, MapEntriesHere[j].ke)

\* The entries before entry j decode, as a map of their own, without error.
EarlierEntriesDecode(j) ==
    \/ j = 1
    \/ load(Fp(<<128 + j - 1>>
                 \o SubSeq(buf, start + 2, MapEntriesHere[j - 1].ve), 0),
            options).st = "ok"

RECURSIVE HasDict(_)
\* v is a mapping or an array with a mapping in it at some depth.
HasDict(v) ==
    CASE v.t = "dict" -> TRUE
      [] v.t \in {"list", "tuple"} ->
            \E i \in 1 .. Len(v.items) : HasDict(v.items[i])
      [] OTHER -> FALSE

RECURSIVE DeepTuple(_)
\* v with every array in it, at any depth, as a tuple.
DeepTuple(v) ==
    IF v.t \in {"list", "tuple"}
    THEN [t |-> "tuple", items |-> [i \in 1 .. Len(v.items) |-> DeepTuple(v.items[i])]]
    ELSE v

\* ------------------------------------------------------------------------
\* C5.  Under both settings of use_tuple a key that decodes to a mapping,
\* or to an array with a mapping in it at any depth, fails with
\* UnhashableKey; a key that decodes to an array of hashable values is
\* accepted, and stored in its recursively tuple-converted form; the check
\* made on the key is exhaustive: UnhashableKey is never first raised by the
\* fallback around the insertion d[k] = v.
\* ------------------------------------------------------------------------
C5_UnhashableKeys ==
    /\ out.via # "insert"
    /\ MapHere =>
          \A j \in 1 .. Len(MapEntriesHere) :
             (EarlierEntriesDecode(j) /\ KeyResult(j).st = "ok") =>
                LET kv == KeyResult(j).val
                IN  IF HasDict(kv)
                    THEN /\ out.st = "UnhashableKey"
                         /\ out.via = "check"
                    ELSE /\ ~(out.st = "UnhashableKey"
                              /\ out.pos = MapEntriesHere[j].ke)
                         /\ out.st = "ok" => out.val.entries[j].k = DeepTuple(kv)

\* With use_tuple set, a key that is an array in an array with a mapping in
\* it was refused.
C5_Witness ==
    /\ MapHere /\ start = 0 /\ options.use_tuple
    /\ Len(buf) >= 4 /\ SubSeq(buf, 1, 4) = <<129, 145, 145, 128>>
    /\ out.st = "UnhashableKey" /\ out.via = "check"

\* An array of arrays was accepted as a key, as a tuple of tuples, with
\* use_tuple not set.
C5_WitnessAccepted ==
    /\ MapHere /\ start = 0 /\ ~options.use_tuple
    /\ out.st = "ok"
    /\ out.val.entries[1].k = PyTuple(<<PyTuple(<<>>)>>)

\* The key of entry j has the bytes of the key of an earlier entry.
RepeatsEarlierKey(j) == \E i \in 1 .. j - 1 : KeyBytes(i) = KeyBytes(j)

\* What follows the key of entry j: "value" for a value that is all there,
\* "reserved" for the tag 0xc1, "cut" for a value cut short or no byte.
AfterKey(j) ==
    LET e == MapEntriesHere[j]
    IN  IF e.ve >= 0 THEN "value"
        ELSE IF e.ke < Len(buf) /\ buf[e.ke + 1] = 193 THEN "reserved"
        ELSE "cut"

\* ------------------------------------------------------------------------
\* C9.  In a map entry the key is decoded and checked before any byte of
\* its value is read: a key that is unhashable, or that repeats an earlier
\* key, fails with UnhashableKey or DuplicateKey with the cursor right after
\* the key, whatever follows it (a value, a value cut short, the reserved
\* tag 0xc1); the unhashable check comes before the duplicate check.
\* ------------------------------------------------------------------------
C9_KeyBeforeValue ==
    MapHere =>
        \A j \in 1 .. Len(MapEntriesHere) :
            (EarlierEntriesDecode(j) /\ KeyResult(j).st = "ok") =>
                LET bad == HasDict(KeyResult(j).val)
                IN  (bad \/ RepeatsEarlierKey(j)) =>
                        /\ out.st = IF bad THEN "UnhashableKey" ELSE "DuplicateKey"
                        /\ out.via = "check"
                        /\ out.pos = MapEntriesHere[j].ke
                        /\ cursor = MapEntriesHere[j].ke

\* The second key repeats the first and the reserved tag follows it.
C9_Witness ==
    /\ MapHere /\ Len(MapEntriesHere) = 2
    /\ RepeatsEarlierKey(2) /\ AfterKey(2) = "reserved"
    /\ out.st = "DuplicateKey" /\ cursor = MapEntriesHere[2].ke

\* An unhashable key with a value cut short after it.
C9_WitnessCut ==
    /\ MapHere /\ Len(MapEntriesHere) >= 1
    /\ AfterKey(1) = "cut" /\ MapEntriesHere[1].ke < Len(buf)
    /\ out.st = "UnhashableKey" /\ cursor = MapEntriesHere[1].ke

\* An unhashable key with a whole value after it.
C9_WitnessValue ==
    /\ MapHere /\ Len(MapEntriesHere) >= 1
    /\ AfterKey(1) = "value"
    /\ out.st = "UnhashableKey" /\ cursor = MapEntriesHere[1].ke

\* What the value of entry j decodes to, taken by itself.
ValueResult(j) == load(Fp(buf, MapEntriesHere[j].ke), options)

RECURSIVE PlainKey(_)
\* v is nil, a boolean, an integer, a float other than NaN, a string, a
\* binary, or an array of such values at any depth.
PlainKey(v) ==
    CASE v.t \in {"nil", "bool", "int", "str", "bytes"} -> TRUE
      [] v.t = "float" -> v.k # "nan"
      [] v.t \in {"list", "tuple"} ->
            \A i \in 1 .. Len(v.items) : PlainKey(v.items[i])
      [] OTHER -> FALSE

\* The keys of the entries up to j decode to plain keys and the values
\* before entry j decode.
PlainUpTo(j) ==
    /\ \A i \in 1 .. j :
          KeyResult(i).st = "ok" /\ PlainKey(KeyResult(i).val)
    /\ \A i \in 1 .. j - 1 : ValueResult(i).st = "ok"

\* The map is all there and each of its keys and values decodes by itself.
WholeMap ==
    /\ Len(MapEntriesHere) = Tag - 128
    /\ \A i \in 1 .. Len(MapEntriesHere) :
          /\ MapEntriesHere[i].ve >= 0
          /\ KeyResult(i).st = "ok"
          /\ ValueResult(i).st = "ok"

\* ------------------------------------------------------------------------
\* C4, as stated.  Decoding any map whose encoding has two entries with the
\* same key bytes fails with DuplicateKey.
\* ------------------------------------------------------------------------
C4_AnyRepeatedKeyBytes ==
    (MapHere /\ WholeMap) =>
        ((\E j \in 1 .. Len(MapEntriesHere) : RepeatsEarlierKey(j))
            => out.st = "DuplicateKey")

\* ------------------------------------------------------------------------
\* C4, amended.  A map in which the key bytes of an entry repeat those of
\* an earlier entry fails with DuplicateKey, raised by the check on a key
\* no later than on the repeated one, when the keys up to the repeated one
\* decode to nil, booleans, integers, floats other than NaN, strings,
\* binaries or arrays of such values at any depth, and the values before it
\* decode; this holds for arrays (two empty-array keys) under both settings
\* of use_tuple.
\* ------------------------------------------------------------------------
C4_RepeatedPlainKey ==
    MapHere =>
        \A j \in 1 .. Len(MapEntriesHere) :
            (RepeatsEarlierKey(j) /\ PlainUpTo(j)) =>
                /\ out.st = "DuplicateKey"
                /\ out.via = "check"
                /\ out.pos <= MapEntriesHere[j].ke
                /\ \E i \in 2 .. j : out.pos = MapEntriesHere[i].ke

\* Two empty-array keys, decoded as lists, collided.
C4_Witness ==
    /\ MapHere /\ start = 0 /\ ~options.use_tuple
    /\ Len(MapEntriesHere) = 2 /\ RepeatsEarlierKey(2)
    /\ KeyBytes(2) = <<144>>
    /\ out.st = "DuplicateKey" /\ out.pos = MapEntriesHere[2].ke

\* ------------------------------------------------------------------------
\* Equality of decoded values, by what the values are: booleans and
\* integers by the number they denote (true is 1, false is 0), strings and
\* binaries by their content and never with each other, arrays element by
\* element.
\* ------------------------------------------------------------------------
RECURSIVE ExactKey(_)
\* v is built of nil, booleans, integers, strings, binaries and arrays.
ExactKey(v) ==
    CASE v.t \in {"nil", "bool", "int", "str", "bytes"} -> TRUE
      [] v.t \in {"list", "tuple"} ->
            \A i \in 1 .. Len(v.items) : ExactKey(v.items[i])
      [] OTHER -> FALSE

KindOf(v) ==
    CASE v.t \in {"bool", "int"} -> "number"
      [] v.t \in {"list", "tuple"} -> "array"
      [] OTHER -> v.t

NumberOf(v) ==
    IF v.t = "bool" THEN (IF v.b THEN 1 ELSE 0)
    ELSE IF v.neg THEN 0 - NatOf(v.mag) ELSE NatOf(v.mag)

RECURSIVE SameValue(_, _)
SameValue(a, b) ==
    /\ KindOf(a) = KindOf(b)
    /\ CASE KindOf(a) = "number" -> NumberOf(a) = NumberOf(b)
         [] KindOf(a) = "str" -> a.s = b.s
         [] KindOf(a) = "bytes" -> a.d = b.d
         [] KindOf(a) = "array" ->
                /\ Len(a.items) = Len(b.items)
                /\ \A i \in 1 .. Len(a.items) : SameValue(a.items[i], b.items[i])
         [] OTHER -> TRUE

\* The keys up to entry j decode to exact keys, no two keys before entry j
\* have the same value, and the values before entry j decode.
ExactUpTo(j) ==
    /\ \A i \in 1 .. j :
          KeyResult(i).st = "ok" /\ ExactKey(KeyResult(i).val)
    /\ \A h, i \in 1 .. j - 1 :
          h < i => ~SameValue(KeyResult(h).val, KeyResult(i).val)
    /\ \A i \in 1 .. j - 1 : ValueResult(i).st = "ok"

\* ------------------------------------------------------------------------
\* C10.  Whether a key collides is decided by the equality of the decoded
\* values, not of the key bytes: a key fails with DuplicateKey exactly when
\* its value equals that of an earlier key, whatever the encodings (1 as
\* fixint and as uint 8, a string as fixstr and as str 8, true and 1, false
\* and 0).
\* ------------------------------------------------------------------------
C10_EqualityOfValues ==
    MapHere =>
        \A j \in 2 .. Len(MapEntriesHere) :
            ExactUpTo(j) =>
                ((out.st = "DuplicateKey" /\ out.pos = MapEntriesHere[j].ke)
                    <=> \E i \in 1 .. j - 1 :
                           SameValue(KeyResult(i).val, KeyResult(j).val))

\* true and the integer 1, of different bytes, collided.
C10_Witness ==
    /\ MapHere /\ Len(MapEntriesHere) = 2
    /\ KeyBytes(1) = <<195>> /\ KeyBytes(2) = <<204, 1>>
    /\ out.st = "DuplicateKey" /\ out.pos = MapEntriesHere[2].ke

\* A string and a binary of the same content did not collide.
C10_WitnessDistinct ==
    /\ MapHere /\ Len(MapEntriesHere) = 2
    /\ KeyBytes(1) = <<161, 97>> /\ KeyBytes(2) = <<196, 1, 97>>
    /\ out.st = "ok" /\ Len(out.val.entries) = 2

====
